---- MODULE Spec2Model ----
(***************************************************************************)
(* Model of antithesis_sdk.h: the per-call-site Assertion objects          *)
(* (CatalogEntry<message, file_name, function_name, line>::assertion),     *)
(* their one-shot flags, and the lines they print to stdout, under         *)
(* concurrent invocation from host threads.                                *)
(*                                                                         *)
(* Granularity.  Every printf call is one atomic step (stdio locks the     *)
(* stream for the duration of one call).  The three flags are bit-fields   *)
(* of one uint8_t, hence one memory location: an assignment to a flag is a *)
(* load of the byte followed by a store of the byte with one bit cleared,  *)
(* and the two are separate steps because nothing in the code orders them  *)
(* against other threads (the data race the TODO comments ask about).      *)
(*                                                                         *)
(* Process model.  CatalogEntry::assertion is a static data member of a    *)
(* class template: it is dynamically initialised, in no specified order,   *)
(* during program start-up, once in every translation unit that            *)
(* instantiates it (the template lives in an anonymous namespace).  Host   *)
(* threads invoke call sites once start-up is over.                        *)
(***************************************************************************)
EXTENDS Naturals, Sequences, FiniteSets, TLC

RECURSIVE LexLess(_, _), SortedKeys(_), Details(_), Escape(_)
RECURSIVE SerializeDetails(_), SerializeValue(_), SerializeLoop(_, _, _)

\* ------------------------------------------------------------------ bounds
\* Number of invocations of call sites in one run: when invocations may
\* overlap (Spec), and when they run one after the other (SpecSeq).
MaxCalls == 2
MaxSeqCalls == 3

\* Number of (key, value) pairs in an initializer list given to Details.
MaxPairs == 2

\* Host threads.  Threads are interchangeable: nothing the code reads or
\* prints depends on which thread runs it.
Threads == {1, 2}

\* Translation units of the host program.
TUs == {"a.cpp", "b.cpp"}

\* --------------------------------------------------------------- call sites
\* A call site: one textual use of an assertion macro.  kind is the macro
\* written at the site; tus are the translation units that compile the site.
\* Both sites are in function f of header h.h, which a.cpp and b.cpp include;
\* the second site is compiled in a.cpp only (it sits under an #if).
SiteA == [message |-> "m", function_name |-> "f", file_name |-> "h.h",
          line |-> 10, kind |-> "ALWAYS", tus |-> {"a.cpp", "b.cpp"}]
SiteB == [message |-> "m", function_name |-> "f", file_name |-> "h.h",
          line |-> 20, kind |-> "SOMETIMES", tus |-> {"a.cpp"}]
Sites == {SiteA, SiteB}

\* The four public macros (ALWAYS_OR_UNREACHABLE is a fifth spelling).
Kinds == {"ALWAYS", "SOMETIMES", "REACHABLE", "UNREACHABLE"}

\* ------------------------------------------------------------- value model
\* A std::string is a sequence of characters.  Code is the character's value
\* as a char, which std::map<std::string, ...> orders keys by.
Chars == {"\n", "\"", "\\", "a", "b", "x"}
Code(ch) ==
    CASE ch = "\n" -> 10 [] ch = "\"" -> 34 [] ch = "\\" -> 92
      [] ch = "a" -> 97 [] ch = "b" -> 98 [] ch = "x" -> 120

\* std::less<std::string>: lexicographic comparison.
LexLess(s, t) ==
    IF t = <<>> THEN FALSE
    ELSE IF s = <<>> THEN TRUE
    ELSE IF Head(s) = Head(t) THEN LexLess(Tail(s), Tail(t))
    ELSE Code(Head(s)) < Code(Head(t))

\* ValueType = std::variant<std::string, double, Details>: a value is a
\* record with the one field of its alternative.
StrValue(s) == [str |-> s]
NumValue(x) == [num |-> x]
DetValue(d) == [det |-> d]

\* The maps that can result when the initializer-list constructor of std::map
\* adds the pair (k, v) to m.  For a key that is already present the C++
\* standard leaves unspecified which of the pairs the map holds (the usual
\* standard libraries keep the earlier one).
MapInsert(m, k, v) ==
    IF k \in DOMAIN m THEN {m, [m EXCEPT ![k] = v]}
    ELSE {[x \in DOMAIN m \cup {k} |-> IF x = k THEN v ELSE m[x]]}

\* Details values: std::map<std::string, ValueType>, a function from keys to
\* values.
EmptyDetails == [k \in {} |-> 0]

\* Details::Details(std::initializer_list<pair>): the maps that can be built
\* from the pairs of the list; exactly one when the keys are distinct.
Details(args) ==
    IF args = <<>> THEN {EmptyDetails}
    ELSE LET n == Len(args) IN
         UNION {MapInsert(m, args[n][1], args[n][2]) :
                    m \in Details(SubSeq(args, 1, n - 1))}

\* Initializer lists written at the call sites: {{"x", 5.0}} and {}.
ArgsX == << <<(<<"x">>), NumValue(5)>> >>
ArgsSet == {<<>>, ArgsX}

\* Initializer lists of up to MaxPairs pairs: keys with and without a quote
\* character, and values of every alternative: strings (plain, a quote, a
\* newline), a number, an empty and a two-pair nested Details.
Keys == {<<"a">>, <<"b", "\"">>}
NestedArgs == << <<(<<"b">>), NumValue(5)>>, <<(<<"a">>), StrValue(<<"x">>)>> >>
NestedDetails == CHOOSE d \in Details(NestedArgs) : TRUE
Values ==
    {StrValue(<<"a">>), StrValue(<<"\"">>), StrValue(<<"\n">>), NumValue(5),
     DetValue(EmptyDetails), DetValue(NestedDetails)}
ArgLists == UNION {[1..n -> Keys \X Values] : n \in 0..MaxPairs}

\* Iteration order of std::map: ascending keys.
SortedKeys(K) ==
    IF K = {} THEN <<>>
    ELSE LET k == CHOOSE x \in K : \A y \in K \ {x} : LexLess(x, y)
         IN  <<k>> \o SortedKeys(K \ {k})

\* ----------------------------------------------------------- serialization
\* Text is a sequence of pieces: a piece is one character of a std::string
\* or one string literal of the code ("{ ", ", ", ": ", " }").

\* The body of std::quoted(s): the delimiter '"' and the escape '\' are
\* preceded by the escape; every other character is copied.
Escape(s) ==
    IF s = <<>> THEN <<>>
    ELSE (IF Head(s) \in {"\"", "\\"} THEN <<"\\", Head(s)>> ELSE <<Head(s)>>)
         \o Escape(Tail(s))

\* out << std::quoted(s)
Quoted(s) == <<"\"">> \o Escape(s) \o <<"\"">>

\* out << arg for a double with a whole value.
NumText(x) == <<ToString(x)>>

\* Mutant of Separator: the separator is written before every pair.
Separator_Always(first) == <<", ">>

\* lines 55-57: if (!first) out << ", "
Separator(first) == IF first THEN <<>> ELSE <<", ">>

\* lines 54-60: the loop over the map, keys being those still to visit.
SerializeLoop(d, keys, first) ==
    IF keys = <<>> THEN <<>>
    ELSE Separator(first) \o Quoted(Head(keys)) \o <<": ">>
         \o SerializeValue(d[Head(keys)])
         \o SerializeLoop(d, Tail(keys), FALSE)

\* operator<<(std::ostream&, const Details&)
SerializeDetails(d) ==
    <<"{ ">> \o SerializeLoop(d, SortedKeys(DOMAIN d), TRUE) \o <<" }">>

\* operator<<(std::ostream&, const ValueType&): std::visit over the variant.
SerializeValue(v) ==
    IF "str" \in DOMAIN v THEN Quoted(v.str)
    ELSE IF "num" \in DOMAIN v THEN NumText(v.num)
    ELSE SerializeDetails(v.det)

\* The identity of a call site: (message, function, file, line).
Identity(c) == <<c.message, c.function_name, c.file_name, c.line>>

\* Mutant of CatalogEntry: the source line is left out of the template
\* arguments, so that two sites of one function with one message share a slot.
CatalogEntry_NoLine(tu, c) ==
    [tu |-> tu, message |-> c.message, file_name |-> c.file_name,
     function_name |-> c.function_name, line |-> 0]

\* The template specialisation a call site resolves to in translation unit
\* tu: CatalogEntry<message, file_name, function_name, line>, a distinct type
\* in every translation unit because the template is declared in an
\* anonymous namespace.
CatalogEntry(tu, c) ==
    [tu |-> tu, message |-> c.message, file_name |-> c.file_name,
     function_name |-> c.function_name, line |-> c.line]

\* The specialisations instantiated in the program: one static Assertion each.
Entries == {CatalogEntry(p[1], p[2]) : p \in {q \in TUs \X Sites : q[1] \in q[2].tus}}

\* ANTITHESIS_ASSERT_RAW and the five macros that expand to it: the macro
\* name is not passed on, the call resolves to CatalogEntry<...>::assertion.
ANTITHESIS_ASSERT_RAW(tu, c) == CatalogEntry(tu, c)

\* AssertionState(): the three flags set, rest zero.
AssertionState ==
    [not_reached |-> TRUE, false_not_seen |-> TRUE, true_not_seen |-> TRUE, rest |-> 0]

\* Static storage before its dynamic initialisation: zero-initialised.
ZeroState ==
    [not_reached |-> FALSE, false_not_seen |-> FALSE, true_not_seen |-> FALSE, rest |-> 0]

\* Mutant of Id: the id also holds the source line.
Id_WithLine(e) ==
    e.message \o " in " \o e.function_name \o ":" \o ToString(e.line)

\* Assertion::id, set by the constructor.
Id(e) == e.message \o " in " \o e.function_name

\* ------------------------------------------------------------ printed lines
\* A printed line is the printf call that wrote it: its format and arguments.
CatalogLine(e) ==
    [fmt |-> "catalog", id |-> Id(e), file_name |-> e.file_name, line |-> e.line,
     function_name |-> e.function_name, message |-> e.message]
ReachedLine(e) == [fmt |-> "reached", id |-> Id(e)]
FirstFalseLine(e) == [fmt |-> "first_false", id |-> Id(e), message |-> e.message]
FirstTrueLine(e) == [fmt |-> "first_true", id |-> Id(e), message |-> e.message]
DetailsLine(d) == [fmt |-> "details", text |-> SerializeDetails(d)]

TransitionFmts == {"reached", "first_false", "first_true"}

\* The grave accent character (U+0060) of the format strings, which a TLA+
\* string literal cannot hold.
Backtick == "U+0060"

\* The text printf writes for a line: the pieces of the format string with
\* the arguments in place of the conversions (%d written in decimal).
Render(l) ==
    CASE l.fmt = "catalog" ->
           <<"There is an assertion with ID ", Backtick, l.id, Backtick, " at ",
             l.file_name, ":", ToString(l.line), " in ", Backtick, l.function_name,
             Backtick, " with message: ", Backtick, l.message, Backtick, "\n">>
      [] l.fmt = "reached" ->
           <<"The assertion with ID ", Backtick, l.id, Backtick, " was reached", "\n">>
      [] l.fmt = "first_false" ->
           <<"The assertion with ID ", Backtick, l.id, Backtick, " saw its first false: ",
             l.message, "\n">>
      [] l.fmt = "first_true" ->
           <<"The assertion with ID ", Backtick, l.id, Backtick, " saw its first true: ",
             l.message, "\n">>
      [] l.fmt = "details" -> <<"Details: ">> \o l.text \o <<"\n">>

\* -------------------------------------------------------------------- state
VARIABLES
    phase,      \* "startup" (static initialisation) or "main"
    constructed,\* entry -> has its Assertion constructor run
    state,      \* entry -> Assertion::state, the byte of bit-fields
    output,     \* stdout: the sequence of printed lines
    writer,     \* history: for each printed line, the entry whose Assertion printed it
    pc,         \* thread -> source line it is about to execute, or "idle"
    frame,      \* thread -> the invocation in progress: site, entry, cond, details, tmp
    calls,      \* number of invocations started
    done,       \* history: the <<entry, cond>> of every completed invocation
    cleared     \* history: the identities whose flags have been all false
                \* at once, in every Assertion object of the identity

vars == <<phase, constructed, state, output, writer, pc, frame, calls, done, cleared>>

NoFrame == [site |-> "none", entry |-> "none", cond |-> FALSE, args |-> <<>>,
            details |-> EmptyDetails, tmp |-> ZeroState]

Init ==
    /\ phase = "startup"
    /\ constructed = [e \in Entries |-> FALSE]
    /\ state = [e \in Entries |-> ZeroState]
    /\ output = <<>>
    /\ writer = <<>>
    /\ pc = [t \in Threads |-> "idle"]
    /\ frame = [t \in Threads |-> NoFrame]
    /\ calls = 0
    /\ done = {}
    /\ cleared = {}

\* printf by the Assertion of entry e: one line appended to stdout.
Printf(e, l) ==
    /\ output' = Append(output, l)
    /\ writer' = Append(writer, e)

Goto(t, label) == pc' = [pc EXCEPT ![t] = label]

\* Return from check_assertion: the invocation is complete.
Return(t) ==
    /\ pc' = [pc EXCEPT ![t] = "idle"]
    /\ done' = done \cup {<<frame[t].entry, frame[t].cond>>}
    /\ frame' = [frame EXCEPT ![t] = NoFrame]

\* ------------------------------------------------------------------ start-up
\* Mutant of StaticInit: the constructor does not call add_to_catalog().
StaticInit_NoCatalog(e) ==
    /\ phase = "startup"
    /\ ~constructed[e]
    /\ constructed' = [constructed EXCEPT ![e] = TRUE]
    /\ state' = [state EXCEPT ![e] = AssertionState]
    /\ UNCHANGED <<phase, output, writer, pc, frame, calls, done, cleared>>

\* Assertion::Assertion, run by the dynamic initialisation of
\* CatalogEntry<...>::assertion = create(): state(), then add_to_catalog().
StaticInit(e) ==
    /\ phase = "startup"
    /\ ~constructed[e]
    /\ constructed' = [constructed EXCEPT ![e] = TRUE]
    /\ state' = [state EXCEPT ![e] = AssertionState]
    /\ Printf(e, CatalogLine(e))
    /\ UNCHANGED <<phase, pc, frame, calls, done, cleared>>

\* Mutant of StartMain: main() starts while Assertion objects are still to
\* be constructed.
StartMain_Early ==
    /\ phase = "startup"
    /\ phase' = "main"
    /\ UNCHANGED <<constructed, state, output, writer, pc, frame, calls, done, cleared>>

\* Static initialisation is complete; main() starts.
StartMain ==
    /\ phase = "startup"
    /\ \A e \in Entries : constructed[e]
    /\ phase' = "main"
    /\ UNCHANGED <<constructed, state, output, writer, pc, frame, calls, done, cleared>>

\* ------------------------------------------------------------- an invocation
\* line 85: the guard of check_assertion; the three flags share one byte,
\* which the guard loads once.
AnyFlagSet(s) == s.not_reached \/ s.false_not_seen \/ s.true_not_seen

\* A macro invocation at call site c, compiled in tu, by thread t: evaluates
\* cond, builds Details from the initializer list args, and runs check_assertion's guard (line 85).  Of the
\* idle threads the lowest takes the invocation (threads are interchangeable).
check_assertion(t, tu, c, cond, args) ==
    /\ phase = "main"
    /\ pc[t] = "idle"
    /\ \A u \in Threads : pc[u] = "idle" => t <= u
    /\ tu \in c.tus
    /\ calls' = calls + 1
    /\ LET e == ANTITHESIS_ASSERT_RAW(tu, c) IN
         IF AnyFlagSet(state[e])
         THEN /\ \E d \in Details(args) :
                   frame' = [frame EXCEPT ![t] =
                               [site |-> c, entry |-> e, cond |-> cond,
                                args |-> args, details |-> d, tmp |-> ZeroState]]
              /\ Goto(t, "L92")
              /\ UNCHANGED done
         ELSE /\ done' = done \cup {<<e, cond>>}
              /\ UNCHANGED <<pc, frame>>
    /\ UNCHANGED <<phase, constructed, state, output, writer, cleared>>

\* Line 98 reads the flag only when cond is false (!cond && ...), line 104
\* only when cond is true: with cond true control passes line 98 without
\* touching shared state, and with cond false it returns at line 104.
AfterL96(cond) == IF cond THEN "L104" ELSE "L98"

\* line 92: if (state.not_reached)
L92(t) ==
    /\ pc[t] = "L92"
    /\ Goto(t, IF state[frame[t].entry].not_reached THEN "L93"
               ELSE AfterL96(frame[t].cond))
    /\ UNCHANGED <<phase, constructed, state, output, writer, frame, calls, done, cleared>>

\* line 93: printf("The assertion with ID `%s` was reached\n", ...)
L93(t) ==
    /\ pc[t] = "L93"
    /\ Printf(frame[t].entry, ReachedLine(frame[t].entry))
    /\ Goto(t, "L94")
    /\ UNCHANGED <<phase, constructed, state, frame, calls, done, cleared>>

\* print_details(details): one printf of "Details: ...".
print_details(t, from, to) ==
    /\ pc[t] = from
    /\ Printf(frame[t].entry, DetailsLine(frame[t].details))
    /\ Goto(t, to)
    /\ UNCHANGED <<phase, constructed, state, frame, calls, done, cleared>>

\* line 94
L94(t) == print_details(t, "L94", "L95")

\* A bit-field assignment, first half: load the byte that holds the flags.
LoadState(t, from, to) ==
    /\ pc[t] = from
    /\ frame' = [frame EXCEPT ![t].tmp = state[frame[t].entry]]
    /\ Goto(t, to)
    /\ UNCHANGED <<phase, constructed, state, output, writer, calls, done, cleared>>

\* The identities all of whose Assertion objects have every flag false in s.
AllClear(s) ==
    {Identity(e) : e \in {x \in Entries :
        \A y \in Entries : Identity(y) = Identity(x) => ~AnyFlagSet(s[y])}}

\* Mutant of StoreState: the store clears the whole byte, not one flag.
StoreState_ClearAll(t, from, flag) ==
    /\ pc[t] = from
    /\ state' = [state EXCEPT ![frame[t].entry] = ZeroState]
    /\ cleared' = cleared \cup AllClear(state')

\* A bit-field assignment, second half: store the loaded byte with the one
\* flag cleared.
StoreState(t, from, flag) ==
    /\ pc[t] = from
    /\ state' = [state EXCEPT ![frame[t].entry] = [frame[t].tmp EXCEPT ![flag] = FALSE]]
    /\ cleared' = cleared \cup AllClear(state')

\* The loaded byte is dead once it is stored.
Forget(f) == [f EXCEPT !.tmp = ZeroState]

\* line 95: state.not_reached = false
L95(t) == LoadState(t, "L95", "L95s")
L95s(t) ==
    /\ StoreState(t, "L95s", "not_reached")
    /\ frame' = [frame EXCEPT ![t] = Forget(frame[t])]
    /\ Goto(t, AfterL96(frame[t].cond))
    /\ UNCHANGED <<phase, constructed, output, writer, calls, done>>

\* line 98: if (!cond && state.false_not_seen), reached with cond false;
\* when the flag is clear, line 104 (cond && ...) fails and the call returns.
L98(t) ==
    /\ pc[t] = "L98"
    /\ ~frame[t].cond
    /\ IF state[frame[t].entry].false_not_seen
       THEN /\ Goto(t, "L99")
            /\ UNCHANGED <<frame, done>>
       ELSE Return(t)
    /\ UNCHANGED <<phase, constructed, state, output, writer, calls, cleared>>

\* line 99: printf("... saw its first false: %s\n", ...)
L99(t) ==
    /\ pc[t] = "L99"
    /\ Printf(frame[t].entry, FirstFalseLine(frame[t].entry))
    /\ Goto(t, "L100")
    /\ UNCHANGED <<phase, constructed, state, frame, calls, done, cleared>>

\* line 100
L100(t) == print_details(t, "L100", "L101")

\* line 101: state.false_not_seen = false; cond is false, so line 104 fails
\* and the call returns.
L101(t) == LoadState(t, "L101", "L101s")
L101s(t) ==
    /\ StoreState(t, "L101s", "false_not_seen")
    /\ Return(t)
    /\ UNCHANGED <<phase, constructed, output, writer, calls>>

\* line 104: if (cond && state.true_not_seen), reached with cond true;
\* otherwise the function returns.
L104(t) ==
    /\ pc[t] = "L104"
    /\ frame[t].cond
    /\ IF state[frame[t].entry].true_not_seen
       THEN /\ Goto(t, "L105")
            /\ UNCHANGED <<frame, done>>
       ELSE Return(t)
    /\ UNCHANGED <<phase, constructed, state, output, writer, calls, cleared>>

\* line 105: printf("... saw its first true: %s\n", ...)
L105(t) ==
    /\ pc[t] = "L105"
    /\ Printf(frame[t].entry, FirstTrueLine(frame[t].entry))
    /\ Goto(t, "L106")
    /\ UNCHANGED <<phase, constructed, state, frame, calls, done, cleared>>

\* line 106
L106(t) == print_details(t, "L106", "L107")

\* line 107: state.true_not_seen = false, then return
L107(t) == LoadState(t, "L107", "L107s")
L107s(t) ==
    /\ StoreState(t, "L107s", "true_not_seen")
    /\ Return(t)
    /\ UNCHANGED <<phase, constructed, output, writer, calls>>

\* One step of check_assertion_internal by thread t.
check_assertion_internal(t) ==
    \/ L92(t) \/ L93(t) \/ L94(t) \/ L95(t) \/ L95s(t)
    \/ L98(t) \/ L99(t) \/ L100(t) \/ L101(t) \/ L101s(t)
    \/ L104(t) \/ L105(t) \/ L106(t) \/ L107(t) \/ L107s(t)

\* The host program: some thread invokes some call site.
Invoke(lists) ==
    \E t \in Threads, tu \in TUs, c \in Sites, cond \in BOOLEAN, args \in lists :
        check_assertion(t, tu, c, cond, args)

Next ==
    \/ \E e \in Entries : StaticInit(e)
    \/ StartMain
    \/ calls < MaxCalls /\ Invoke({ArgsX})
    \/ \E t \in Threads : check_assertion_internal(t)

Spec == Init /\ [][Next]_vars

\* Race-free executions.  Invocations that do not overlap cannot race; the
\* executions of SpecSeq are the sequential ones, where an invocation starts
\* only when no other is in progress.
Quiescent == \A t \in Threads : pc[t] = "idle"

NextSeq ==
    \/ \E e \in Entries : StaticInit(e)
    \/ StartMain
    \/ calls < MaxSeqCalls /\ Quiescent /\ Invoke(ArgsSet)
    \/ \E t \in Threads : check_assertion_internal(t)

SpecSeq == Init /\ [][NextSeq]_vars

\* Executions that exercise Details: one invocation, with any of the
\* initializer lists of ArgLists.

NextSer ==
    \/ \E e \in Entries : StaticInit(e)
    \/ StartMain
    \/ calls = 0 /\ Invoke(ArgLists)
    \/ \E t \in Threads : check_assertion_internal(t)

SpecSer == Init /\ [][NextSer]_vars

\* Executions in which the host program invokes one call site only, the one
\* compiled in a single translation unit, up to MaxOneCalls times, from
\* threads that may overlap.
MaxOneCalls == 4

NextOne ==
    \/ \E e \in Entries : StaticInit(e)
    \/ StartMain
    \/ /\ calls < MaxOneCalls
       /\ \E t \in Threads, tu \in TUs, cond \in BOOLEAN :
              check_assertion(t, tu, SiteB, cond, <<>>)
    \/ \E t \in Threads : check_assertion_internal(t)

SpecOne == Init /\ [][NextOne]_vars

\* ------------------------------------------------------------------- claims
Flags == {"not_reached", "false_not_seen", "true_not_seen"}

Identities == {Identity(c) : c \in Sites}

\* The lines of format f printed for identity idn, by any of its Assertion
\* objects, and those printed by the Assertion of entry e.
LinesOf(f, idn) ==
    {i \in 1..Len(output) : output[i].fmt = f /\ Identity(writer[i]) = idn}
LinesBy(f, e) ==
    {i \in 1..Len(output) : output[i].fmt = f /\ writer[i] = e}

\* The call site an entry was instantiated for.
SiteOf(e) == CHOOSE c \in Sites : e.tu \in c.tus /\ CatalogEntry(e.tu, c) = e

\* C1: for every identity exactly one catalog record is emitted, however many
\* threads invoke the site: never more than one, and exactly one once the
\* host program runs.
C1_OneCatalogRecordPerIdentity ==
    \A idn \in Identities :
        /\ Cardinality(LinesOf("catalog", idn)) <= 1
        /\ phase = "main" => Cardinality(LinesOf("catalog", idn)) = 1

C3_AtMostOneFirstFalseAndTrue ==
    \A idn \in Identities, f \in {"first_false", "first_true"} :
        Cardinality(LinesOf(f, idn)) <= 1

\* C4: in a race-free execution every identity has at most one reached
\* record, and it precedes every first-false and first-true record of the
\* identity.
C4_OneReachedFirst ==
    \A idn \in Identities :
        /\ Cardinality(LinesOf("reached", idn)) <= 1
        /\ \A i \in LinesOf("first_false", idn) \cup LinesOf("first_true", idn) :
              \E j \in LinesOf("reached", idn) : j < i

C6_RecordsNotTorn ==
    \A i \in 1..(Len(output) - 1) :
        output[i].fmt \in TransitionFmts =>
            output[i + 1].fmt = "details" /\ writer[i + 1] = writer[i]

\* C7: the flags of a constructed AssertionState are monotone: a flag that
\* is false stays false in every step.
C7_FlagsMonotone ==
    [][\A e \in Entries, f \in Flags :
          (constructed[e] /\ ~state[e][f]) => ~state'[e][f]]_vars

\* C8: two sites with the same message and different lines are independent.
\* Each has its own catalog record, with its own file and line, and a step of
\* an invocation of one site leaves the flags of every other site unchanged.
C8_IndependentSites ==
    /\ [](phase = "main" =>
            \A c \in Sites :
                \E i \in 1..Len(output) :
                    /\ output[i].fmt = "catalog"
                    /\ output[i].message = c.message
                    /\ output[i].file_name = c.file_name
                    /\ output[i].line = c.line)
    /\ [][\A t \in Threads :
            (pc[t] # "idle" /\ pc'[t] # pc[t]) =>
                \A c \in Sites \ {frame[t].site} :
                    \A tu \in c.tus :
                        state'[CatalogEntry(tu, c)] = state[CatalogEntry(tu, c)]]_vars

\* C8 witness: the first site has been reached and has seen a false condition,
\* while the second site, in the same translation unit, has all its flags set.
C8_Witness ==
    /\ phase = "main"
    /\ LinesBy("reached", CatalogEntry("a.cpp", SiteA)) # {}
    /\ LinesBy("first_false", CatalogEntry("a.cpp", SiteA)) # {}
    /\ ~state[CatalogEntry("a.cpp", SiteA)].not_reached
    /\ ~state[CatalogEntry("a.cpp", SiteA)].false_not_seen
    /\ state[CatalogEntry("a.cpp", SiteB)] = AssertionState
    /\ LinesBy("reached", CatalogEntry("a.cpp", SiteB)) = {}

\* C9: one AssertionState per identity: whichever translation unit an
\* invocation of a site is compiled in, it reads and updates the same flags.
C9_OneStatePerIdentity ==
    phase = "main" =>
        \A c \in Sites :
            \A tu1 \in c.tus, tu2 \in c.tus :
                state[CatalogEntry(tu1, c)] = state[CatalogEntry(tu2, c)]

\* C10: every catalog and transition record carries the kind of the macro
\* written at the site it was printed for.
C10_RecordsCarryKind ==
    \A i \in 1..Len(output) :
        output[i].fmt # "details" =>
            /\ "kind" \in DOMAIN output[i]
            /\ output[i].kind = SiteOf(writer[i]).kind


\* C11: every emitted line follows the documented format, with
\* id = "<message> in <function>" and id, function and message of the catalog
\* record, and the id of the transition records, enclosed in double quotes;
\* each transition line is followed by a "Details: ..." line.
C11_Documented(f, e) ==
    LET id == e.message \o " in " \o e.function_name IN
    CASE f = "catalog" ->
           <<"There is an assertion with ID ", "\"", id, "\"", " at ",
             e.file_name, ":", ToString(e.line), " in ", "\"", e.function_name,
             "\"", " with message: ", "\"", e.message, "\"", "\n">>
      [] f = "reached" ->
           <<"The assertion with ID ", "\"", id, "\"", " was reached", "\n">>
      [] f = "first_false" ->
           <<"The assertion with ID ", "\"", id, "\"", " saw its first false: ",
             e.message, "\n">>
      [] f = "first_true" ->
           <<"The assertion with ID ", "\"", id, "\"", " saw its first true: ",
             e.message, "\n">>
C11_DocumentedFormat ==
    /\ \A i \in 1..Len(output) :
         output[i].fmt # "details" =>
           Render(output[i]) = C11_Documented(output[i].fmt, writer[i])
    /\ Quiescent =>
         \A i \in 1..Len(output) :
           output[i].fmt \in TransitionFmts =>
             i < Len(output) /\ output[i + 1].fmt = "details"


\* The invocations in progress, and the "Details: ..." lines printed so far.
\* In SpecSer there is one invocation, and every Details line is its own.
InFlight == {t \in Threads : pc[t] # "idle"}
DetailsLines == {i \in 1..Len(output) : output[i].fmt = "details"}

\* C12: keys are unique within a Details and, when the list of pairs given
\* to the constructor holds a key more than once, the value kept for the key
\* is the last one supplied.
C12_LastWriteWins ==
    \A t \in InFlight :
        LET a == frame[t].args
            d == frame[t].details
        IN  /\ DOMAIN d = {a[i][1] : i \in DOMAIN a}
            /\ \A i \in DOMAIN a :
                 (\A j \in DOMAIN a : j > i => a[j][1] # a[i][1])
                    => d[a[i][1]] = a[i][2]

\* C13: the serialization of a Details built from a list of pairs with
\* distinct keys lists the pairs in the order of the list.
C13_InOrder(d, a) ==
    <<"{ ">> \o SerializeLoop(d, [i \in DOMAIN a |-> a[i][1]], TRUE) \o <<" }">>
C13_InsertionOrder ==
    \A t \in InFlight :
        LET a == frame[t].args IN
        (\A i, j \in DOMAIN a : i # j => a[i][1] # a[j][1]) =>
            \A i \in DetailsLines : output[i].text = C13_InOrder(frame[t].details, a)


\* C14: a Details of n pairs is serialized as "{ ", the n pairs rendered as
\* "key": value with a ", " after each pair but the last (n-1 separators,
\* none trailing), and " }"; a nested Details is rendered in the same form,
\* and an empty Details as "{  }".
RECURSIVE C14_Form(_), C14_Pairs(_, _, _)
C14_Value(v) ==
    IF "str" \in DOMAIN v THEN <<"\"">> \o Escape(v.str) \o <<"\"">>
    ELSE IF "num" \in DOMAIN v THEN <<ToString(v.num)>>
    ELSE C14_Form(v.det)
C14_Pairs(d, ks, i) ==
    IF i > Len(ks) THEN <<>>
    ELSE <<"\"">> \o Escape(ks[i]) \o <<"\"", ": ">> \o C14_Value(d[ks[i]])
         \o (IF i < Len(ks) THEN <<", ">> ELSE <<>>)
         \o C14_Pairs(d, ks, i + 1)
C14_Form(d) == <<"{ ">> \o C14_Pairs(d, SortedKeys(DOMAIN d), 1) \o <<" }">>
C14_Count(x, piece) == Cardinality({j \in DOMAIN x : x[j] = piece})
C14_EmptyObjects(x) ==
    Cardinality({j \in DOMAIN x : x[j] = "{ " /\ j < Len(x) /\ x[j + 1] = " }"})
C14_SerializedForm ==
    \A t \in InFlight : \A i \in DetailsLines :
        LET d == frame[t].details
            x == output[i].text
        IN  /\ x = C14_Form(d)
            /\ d = EmptyDetails => x = <<"{ ", " }">>
            /\ x[1] = "{ " /\ x[Len(x)] = " }"
            /\ \A j \in DOMAIN x :
                 x[j] = ", " => j > 1 /\ x[j - 1] # "{ " /\ x[j + 1] # " }"
            /\ C14_Count(x, "{ ") = C14_Count(x, " }")
            /\ C14_Count(x, ", ") + C14_Count(x, "{ ")
                 = C14_Count(x, ": ") + C14_EmptyObjects(x)
C14_Witness ==
    \E t \in InFlight : \E i \in DetailsLines :
        LET d == frame[t].details IN
        /\ Cardinality(DOMAIN d) = 2
        /\ \E k \in DOMAIN d : d[k] = DetValue(NestedDetails)
        /\ C14_Count(output[i].text, ", ") = 2


\* C15: a serialized string value or key is enclosed in double quotes with
\* its quote characters and its control characters escaped, so that the text
\* of a "Details: ..." line holds no raw control character.
C15_ControlChars == {"\n"}
C15_NoRawControlChar ==
    \A i \in DetailsLines : \A j \in DOMAIN output[i].text :
        output[i].text[j] \notin C15_ControlChars


\* C16: in a race-free execution an invocation of a site emits a reached
\* record iff it is the first invocation of the site, a first-false record
\* iff its cond is false and no earlier invocation of the site had a false
\* cond, and a first-true record likewise, the reached record first.  So
\* once no invocation is in progress, an identity has one reached record if
\* it was invoked and none otherwise, one first-false record if it was
\* invoked with a false cond and none otherwise, the same for true, and
\* its reached record precedes the other two.
C16_Invoked(idn) == {p \in done : Identity(p[1]) = idn}
C16_ExactEmissions ==
    Quiescent =>
      \A idn \in Identities :
        /\ Cardinality(LinesOf("reached", idn))
             = IF C16_Invoked(idn) # {} THEN 1 ELSE 0
        /\ Cardinality(LinesOf("first_false", idn))
             = IF \E p \in C16_Invoked(idn) : ~p[2] THEN 1 ELSE 0
        /\ Cardinality(LinesOf("first_true", idn))
             = IF \E p \in C16_Invoked(idn) : p[2] THEN 1 ELSE 0
        /\ \A i \in LinesOf("reached", idn) :
             \A j \in LinesOf("first_false", idn) \cup LinesOf("first_true", idn) :
               i < j


\* C17: once all three flags of an identity are false, every invocation of
\* the site that starts afterwards takes the fast path: it emits no record
\* and leaves the AssertionState unchanged.
C17_FastPathForever ==
    [][\A t \in Threads :
         (pc[t] = "idle" /\ calls' = calls + 1 /\ pc'[t] # "idle"
            /\ Identity(frame'[t].entry) \in cleared)
           => FALSE]_vars


\* The Assertion objects whose call site has been invoked: an invocation of
\* it is in progress or complete.
C18_Executed ==
    {frame[t].entry : t \in InFlight} \cup {p[1] : p \in done}

C19_IdFromMessageAndFunction ==
    \A i, j \in 1..Len(output) :
        (/\ output[i].fmt # "details" /\ output[j].fmt # "details"
         /\ writer[i].message = writer[j].message
         /\ writer[i].function_name = writer[j].function_name) =>
            /\ output[i].id = output[j].id
            /\ (output[i].fmt = output[j].fmt /\ output[i].fmt \in TransitionFmts)
                  => Render(output[i]) = Render(output[j])
C19_Witness ==
    \E i, j \in 1..Len(output) :
        /\ output[i].fmt = "reached" /\ output[j].fmt = "reached"
        /\ Identity(writer[i]) # Identity(writer[j])
        /\ writer[i].message = writer[j].message
        /\ writer[i].function_name = writer[j].function_name

====
